---- MODULE Spec2Model ----
\* Credential manager of libmachete (credentials.go): the provisioner registry,
\* the codec selection, and the create / read / update / delete operations with
\* their two-phase decode, over an abstract key-value store.
EXTENDS Integers, FiniteSets, Sequences, TLC

VARIABLES credentialers, store, last, pc, lock, call, raced, res, crashed

\* The registry, the backing store and the single caller's last observation;
\* then, for callers running concurrently, each one's position, the holder
\* of the registry mutex, each one's arguments, whether its map read
\* overlapped a map write, what its map read gave, and whether the runtime
\* stopped the process.
cvars == <<pc, lock, call, raced, res, crashed>>
vars == <<credentialers, store, last, pc, lock, call, raced, res, crashed>>

\* ---------------------------------------------------------------- domains

MaxVal == 1

\* Provisioner names callers use; the discriminator of a payload is one of
\* them or absent.
Names == {"aws", "azure"}
NoDisc == ""
Discs == Names \cup {NoDisc}

Keys == {"k1", "k2"}

\* Field contents of a concrete credential; 0 is the zero value of the field.
Vals == 0 .. MaxVal

\* Content-type tokens; NilCodec is the nil selector.
NilCodec == "nil"
Codecs == {"json", "yaml"}
Selectors == Codecs \cup {NilCodec}
DefaultContentType == "json"

\* ---------------------------------------------------------------- values

\* A credential value in memory: the shape it was allocated with, its
\* discriminator field, and the content of the shape's own fields.
NilCred == [shape |-> "nil", disc |-> NoDisc, v |-> 0]
CredentialBase == [shape |-> "base", disc |-> NoDisc, v |-> 0]
ConcreteCreds == [shape : Names, disc : Discs, v : Vals]

\* A factory allocates an empty credential of one concrete shape; a stamping
\* factory presets the discriminator to the shape's provisioner name.  A
\* provisioner registers a factory of its own shape.
NoFactory == [shape |-> "none", stamps |-> FALSE]
Factories(name) == [shape : {name}, stamps : BOOLEAN]
\* The factories the two provisioner packages register at start-up: the one
\* of aws presets the discriminator, the one of azure leaves it empty.
FactoryOf(name) == [shape |-> name, stamps |-> (name = "aws")]
Call(f) == [shape |-> f.shape, disc |-> IF f.stamps THEN f.shape ELSE NoDisc, v |-> 0]

\* A serialized document: garbage, or a discriminator (possibly absent), the
\* schema its fields belong to, the field content, and whether the field
\* content has a type the schema's shape rejects.
GarbageDoc == [wf |-> FALSE, enc |-> "json", disc |-> NoDisc, schema |-> "aws", v |-> 0, bad |-> FALSE]
GoodDocs == [wf : {TRUE}, enc : {"json"}, disc : Discs, schema : Names, v : 1 .. MaxVal, bad : {FALSE}]
BadFieldDocs ==
    {[wf |-> TRUE, enc |-> "json", disc |-> n, schema |-> n, v |-> 0, bad |-> TRUE] : n \in Names}
Docs == {GarbageDoc} \cup GoodDocs \cup BadFieldDocs

\* An input reader: it yields its bytes or fails while being read.
ReadFail == [readErr |-> TRUE, data |-> GarbageDoc]
Inputs == {ReadFail} \cup [readErr : {FALSE}, data : Docs]

\* *CredentialError: nil, or a code and a message.
ErrCredentialDuplicate == 0
ErrCredentialNotFound == 1
NilError == [nil |-> TRUE, Code |-> 0, Message |-> ""]
CredentialError(code, msg) == [nil |-> FALSE, Code |-> code, Message |-> msg]
\* CredentialError{Message: ...}: the Code field keeps Go's zero value.
CredentialErrorMsg(msg) == [nil |-> FALSE, Code |-> 0, Message |-> msg]

\* ---------------------------------------------------------------- codec

\* Decoding a well-formed document into a target shape: the discriminator
\* is set when the document carries one, the shape's fields are set when the
\* document's fields belong to the shape's schema (other fields are ignored),
\* and a field content the shape rejects is an error.  The base shape has the
\* discriminator only.
DecodeInto(disc, schema, v, bad, target) ==
    IF target.shape = schema /\ bad
    THEN [err |-> "codec error", cred |-> target]
    ELSE [err |-> "",
          cred |-> [shape |-> target.shape,
                    disc |-> IF disc # NoDisc THEN disc ELSE target.disc,
                    v |-> IF target.shape = schema THEN v ELSE target.v]]

codec_unmarshal(c, data, cred) ==
    IF ~data.wf \/ data.enc # c
    THEN [err |-> "codec error", cred |-> cred]
    ELSE DecodeInto(data.disc, data.schema, data.v, data.bad, cred)

codec_marshal(c, cred) ==
    [err |-> "",
     data |-> [wf |-> TRUE, enc |-> c, disc |-> cred.disc,
               schema |-> IF cred.shape \in Names THEN cred.shape ELSE "aws",
               v |-> cred.v, bad |-> FALSE]]

ensureValidCredentialContentType(ct) ==
    IF ct # NilCodec THEN ct ELSE DefaultContentType

\* The selector handed to the codec as it came, nil included.
Unmarshal_NoDefault(contentType, data, cred) ==
    codec_unmarshal(contentType, data, cred)

Unmarshal(contentType, data, cred) ==
    codec_unmarshal(ensureValidCredentialContentType(contentType), data, cred)

Marshal(contentType, cred) ==
    codec_marshal(ensureValidCredentialContentType(contentType), cred)

\* ---------------------------------------------------------------- store

\* A cell of the backing store: absent, a record nothing decodes, or the
\* one encoded representation of a credential.
\* BadFieldCell is a record written by another program: its discriminator
\* reads, the fields of its own schema do not.
AbsentCell == [st |-> "absent", disc |-> NoDisc, schema |-> "aws", v |-> 0]
GarbageCell == [st |-> "garbage", disc |-> NoDisc, schema |-> "aws", v |-> 0]
BadFieldCell == [st |-> "badfield", disc |-> "aws", schema |-> "aws", v |-> 0]
Encode(cred) == [st |-> "ok", disc |-> cred.disc, schema |-> cred.shape, v |-> cred.v]
Cells == {AbsentCell, GarbageCell, BadFieldCell} \cup {Encode(c) : c \in ConcreteCreds}

store_GetCredentials(s, key, target) ==
    CASE s[key].st = "absent" -> [err |-> "store: not found", cred |-> target]
      [] s[key].st = "garbage" -> [err |-> "store: undecodable", cred |-> target]
      [] OTHER -> DecodeInto(s[key].disc, s[key].schema, s[key].v, s[key].st = "badfield", target)

\* fails: the store's write fails and writes nothing.
store_Save(s, key, cred, fails) ==
    IF fails
    THEN [err |-> "store: save failed", store |-> s]
    ELSE [err |-> "", store |-> [s EXCEPT ![key] = Encode(cred)]]

\* complains: what the store answers when asked to delete an absent key.
store_Delete(s, key, complains) ==
    [err |-> IF s[key].st = "absent" /\ complains THEN "store: not found" ELSE "",
     store |-> [s EXCEPT ![key] = AbsentCell]]

store_List(s, fails) ==
    IF fails
    THEN [err |-> "store: list failed", list |-> {}]
    ELSE [err |-> "", list |-> {k \in Keys : s[k].st # "absent"}]

\* ---------------------------------------------------------------- registry

\* credentialers[name], with the "has" of Go's two-value map read.
Lookup(reg, name) == IF name \in DOMAIN reg THEN reg[name] ELSE NoFactory

NewCredential(reg, provisionerName) ==
    IF Lookup(reg, provisionerName) # NoFactory
    THEN [cred |-> Call(Lookup(reg, provisionerName)), err |-> ""]
    ELSE [cred |-> NilCred, err |-> "Unknown provisioner"]

\* ---------------------------------------------------------------- manager

\* A Save that refuses a key that has a readable record.
Save_IfAbsent(s, key, cred, fails) ==
    IF store_GetCredentials(s, key, CredentialBase).err = ""
    THEN [err |-> "Key exists", store |-> s]
    ELSE store_Save(s, key, cred, fails)

Save(s, key, cred, fails) == store_Save(s, key, cred, fails)

Exists_Negated(s, key) == store_GetCredentials(s, key, CredentialBase).err # ""

\* Anything the store holds at the key counts, decodable or not.
Exists_AnyRecord(s, key) ==
    store_GetCredentials(s, key, CredentialBase).err # "store: not found"

Exists(s, key) == store_GetCredentials(s, key, CredentialBase).err = ""

\* A Delete that answers without removing anything.
Delete_Noop(s, key, complains) == [err |-> "", store |-> s]

Delete(s, key, complains) == store_Delete(s, key, complains)

\* The result declared without a value: nil when nothing is appended to it.
ListIds_NilWhenEmpty(s, fails) ==
    IF store_List(s, fails).err # ""
    THEN [out |-> {}, nil |-> TRUE, err |-> store_List(s, fails).err]
    ELSE [out |-> store_List(s, fails).list, nil |-> store_List(s, fails).list = {},
          err |-> ""]

ListIds(s, fails) ==
    IF store_List(s, fails).err # ""
    THEN [out |-> {}, nil |-> TRUE, err |-> store_List(s, fails).err]
    ELSE [out |-> store_List(s, fails).list, nil |-> FALSE, err |-> ""]

Get_BaseOnly(s, reg, key) ==
    LET base == store_GetCredentials(s, key, CredentialBase)
    IN  IF base.err # "" THEN [cred |-> NilCred, err |-> base.err]
        ELSE [cred |-> base.cred, err |-> ""]

Get_DetailOnError(s, reg, key) ==
    LET base == store_GetCredentials(s, key, CredentialBase)
        detail == NewCredential(reg, base.cred.disc)
        read == store_GetCredentials(s, key, detail.cred)
    IN  IF base.err # "" THEN [cred |-> NilCred, err |-> base.err]
        ELSE IF detail.err # "" THEN [cred |-> NilCred, err |-> detail.err]
        ELSE [cred |-> read.cred, err |-> read.err]

Get(s, reg, key) ==
    LET base == store_GetCredentials(s, key, CredentialBase)
        detail == NewCredential(reg, base.cred.disc)
        read == store_GetCredentials(s, key, detail.cred)
    IN  IF base.err # "" THEN [cred |-> NilCred, err |-> base.err]
        ELSE IF detail.err # "" THEN [cred |-> NilCred, err |-> detail.err]
        ELSE IF read.err # "" THEN [cred |-> NilCred, err |-> read.err]
        ELSE [cred |-> read.cred, err |-> ""]

\* CreateCredential after its existence check.
CreateCredentialBody(s, reg, provisioner, key, input, codec, fails) ==
    LET cr == NewCredential(reg, provisioner)
        dec == Unmarshal(codec, input.data, cr.cred)
        sav == Save(s, key, dec.cred, fails)
    IN  IF cr.err # ""
        THEN [err |-> CredentialError(ErrCredentialNotFound, "Unknown provisioner"), store |-> s]
        ELSE IF input.readErr
        THEN [err |-> CredentialErrorMsg("read error"), store |-> s]
        ELSE IF dec.err # ""
        THEN [err |-> CredentialErrorMsg(dec.err), store |-> s]
        ELSE IF sav.err # ""
        THEN [err |-> CredentialErrorMsg(sav.err), store |-> sav.store]
        ELSE [err |-> NilError, store |-> sav.store]

\* The existence check left out.
CreateCredentialRet_Overwrites(s, reg, provisioner, key, input, codec, fails) ==
    CreateCredentialBody(s, reg, provisioner, key, input, codec, fails)

\* The empty credential saved before the payload is decoded into it.
CreateCredentialRet_SaveBeforeDecode(s, reg, provisioner, key, input, codec, fails) ==
    LET r == CreateCredentialBody(s, reg, provisioner, key, input, codec, fails)
    IN  IF Exists(s, key)
        THEN [err |-> CredentialError(ErrCredentialDuplicate, "Key exists"), store |-> s]
        ELSE IF r.err.Message = "codec error"
        THEN [err |-> r.err,
              store |-> Save(s, key, NewCredential(reg, provisioner).cred, fails).store]
        ELSE r

CreateCredentialRet(s, reg, provisioner, key, input, codec, fails) ==
    IF Exists(s, key)
    THEN [err |-> CredentialError(ErrCredentialDuplicate, "Key exists"), store |-> s]
    ELSE CreateCredentialBody(s, reg, provisioner, key, input, codec, fails)

\* UpdateCredential after its existence check.
UpdateCredentialBody(s, reg, key, input, codec, fails) ==
    LET base == Unmarshal(codec, input.data, CredentialBase)
        detail == NewCredential(reg, base.cred.disc)
        dec == Unmarshal(codec, input.data, detail.cred)
        sav == Save(s, key, dec.cred, fails)
    IN  IF input.readErr
        THEN [err |-> CredentialErrorMsg("read error"), store |-> s]
        ELSE IF base.err # ""
        THEN [err |-> CredentialErrorMsg(base.err), store |-> s]
        ELSE IF detail.err # ""
        THEN [err |-> CredentialError(ErrCredentialNotFound, "Unknow provisioner"), store |-> s]
        ELSE IF dec.err # ""
        THEN [err |-> CredentialErrorMsg(dec.err), store |-> s]
        ELSE IF sav.err # ""
        THEN [err |-> CredentialErrorMsg(sav.err), store |-> sav.store]
        ELSE [err |-> NilError, store |-> sav.store]

\* The existence check left out.
UpdateCredentialRet_Creates(s, reg, key, input, codec, fails) ==
    UpdateCredentialBody(s, reg, key, input, codec, fails)

UpdateCredentialRet(s, reg, key, input, codec, fails) ==
    IF ~Exists(s, key)
    THEN [err |-> CredentialError(ErrCredentialNotFound, "Credential not found"), store |-> s]
    ELSE UpdateCredentialBody(s, reg, key, input, codec, fails)

\* What CreateCredential does between its existence check and its Save: the
\* error it returns, or the credential it goes on to save.
CreateDecoded(reg, provisioner, input, codec) ==
    LET cr == NewCredential(reg, provisioner)
        dec == Unmarshal(codec, input.data, cr.cred)
    IN  IF cr.err # ""
        THEN [err |-> CredentialError(ErrCredentialNotFound, "Unknown provisioner"),
              cred |-> NilCred]
        ELSE IF input.readErr
        THEN [err |-> CredentialErrorMsg("read error"), cred |-> NilCred]
        ELSE IF dec.err # ""
        THEN [err |-> CredentialErrorMsg(dec.err), cred |-> NilCred]
        ELSE [err |-> NilError, cred |-> dec.cred]

\* What UpdateCredential does between its existence check and its Save.
UpdateDecoded(reg, input, codec) ==
    LET base == Unmarshal(codec, input.data, CredentialBase)
        detail == NewCredential(reg, base.cred.disc)
        dec == Unmarshal(codec, input.data, detail.cred)
    IN  IF input.readErr
        THEN [err |-> CredentialErrorMsg("read error"), cred |-> NilCred]
        ELSE IF base.err # ""
        THEN [err |-> CredentialErrorMsg(base.err), cred |-> NilCred]
        ELSE IF detail.err # ""
        THEN [err |-> CredentialError(ErrCredentialNotFound, "Unknow provisioner"),
              cred |-> NilCred]
        ELSE IF dec.err # ""
        THEN [err |-> CredentialErrorMsg(dec.err), cred |-> NilCred]
        ELSE [err |-> NilError, cred |-> dec.cred]

\* ---------------------------------------------------------------- operations

\* What the single caller observed from the operation it performed last;
\* was is the shape of the record a successful update replaced, and the state
\* of the cell a delete was asked to remove; out is the credential a call
\* returned, and for a successful create what its payload decodes to in the
\* shape of the provisioner it named; f is the factory a registration passed,
\* and was is "other" when the name had another factory before it; codec and
\* data are the selector and the bytes of a Marshal or an Unmarshal.
NoCall ==
    [op |-> "none", key |-> "k1", prov |-> NoDisc, was |-> "", f |-> NoFactory,
     err |-> NilError, gerr |-> "", out |-> NilCred, ok |-> FALSE, ids |-> {},
     codec |-> NilCodec, data |-> GarbageDoc]

Procs == {"p1", "p2"}
NoLock == "free"
NoArgs == [name |-> NoDisc, f |-> NoFactory]

InitConc ==
    /\ pc = [p \in Procs |-> "idle"]
    /\ lock = NoLock
    /\ call = [p \in Procs |-> NoArgs]
    /\ raced = [p \in Procs |-> FALSE]
    /\ res = [p \in Procs |-> NoFactory]
    /\ crashed = FALSE

Init ==
    /\ credentialers = [n \in Names |-> NoFactory]
    /\ store \in [Keys -> {AbsentCell, GarbageCell, BadFieldCell}]
    /\ last = NoCall
    /\ InitConc

InitStoreEmpty ==
    /\ credentialers = [n \in Names |-> NoFactory]
    /\ store = [k \in Keys |-> AbsentCell]
    /\ last = NoCall
    /\ InitConc

RegisterCredentialer_KeepsFirst(provisionerName, f) ==
    /\ credentialers' = IF credentialers[provisionerName] = NoFactory
                        THEN [credentialers EXCEPT ![provisionerName] = f]
                        ELSE credentialers
    /\ last' = [NoCall EXCEPT !.op = "RegisterCredentialer", !.prov = provisionerName,
                              !.f = f,
                              !.was = IF credentialers[provisionerName] \in {NoFactory, f}
                                      THEN "" ELSE "other"]
    /\ UNCHANGED <<store, cvars>>

RegisterCredentialer(provisionerName, f) ==
    /\ credentialers' = [credentialers EXCEPT ![provisionerName] = f]
    /\ last' = [NoCall EXCEPT !.op = "RegisterCredentialer", !.prov = provisionerName,
                              !.f = f,
                              !.was = IF credentialers[provisionerName] \in {NoFactory, f}
                                      THEN "" ELSE "other"]
    /\ UNCHANGED <<store, cvars>>

DoNewCredential(provisionerName) ==
    /\ last' = [NoCall EXCEPT !.op = "NewCredential", !.prov = provisionerName,
                              !.out = NewCredential(credentialers, provisionerName).cred,
                              !.gerr = NewCredential(credentialers, provisionerName).err]
    /\ UNCHANGED <<credentialers, store, cvars>>

DoListIds(fails) ==
    /\ last' = [NoCall EXCEPT !.op = "ListIds",
                              !.ids = ListIds(store, fails).out,
                              !.ok = ~ListIds(store, fails).nil,
                              !.gerr = ListIds(store, fails).err]
    /\ UNCHANGED <<credentialers, store, cvars>>

DoSave(key, cred, fails) ==
    /\ store' = Save(store, key, cred, fails).store
    /\ last' = [NoCall EXCEPT !.op = "Save", !.key = key,
                              !.gerr = Save(store, key, cred, fails).err]
    /\ UNCHANGED <<credentialers, cvars>>

DoGet(key) ==
    /\ last' = [NoCall EXCEPT !.op = "Get", !.key = key,
                              !.out = Get(store, credentialers, key).cred,
                              !.gerr = Get(store, credentialers, key).err]
    /\ UNCHANGED <<credentialers, store, cvars>>

DoDelete(key, complains) ==
    /\ store' = Delete(store, key, complains).store
    /\ last' = [NoCall EXCEPT !.op = "Delete", !.key = key, !.was = store[key].st,
                              !.gerr = Delete(store, key, complains).err]
    /\ UNCHANGED <<credentialers, cvars>>

DoExists(key) ==
    /\ last' = [NoCall EXCEPT !.op = "Exists", !.key = key, !.ok = Exists(store, key)]
    /\ UNCHANGED <<credentialers, store, cvars>>

\* The outcomes of a call: the store decides whether its write fails only when
\* the call gets as far as writing.
CreateCredential(provisioner, key, input, codec) ==
    \E r \in {CreateCredentialRet(store, credentialers, provisioner, key, input, codec, fails) :
                fails \in BOOLEAN} :
        /\ store' = r.store
        /\ last' = [NoCall EXCEPT !.op = "CreateCredential", !.key = key, !.prov = provisioner,
                                  !.err = r.err,
                                  !.out = IF r.err = NilError
                                          THEN Unmarshal(codec, input.data,
                                                 NewCredential(credentialers, provisioner).cred).cred
                                          ELSE NilCred]
        /\ UNCHANGED <<credentialers, cvars>>

UpdateCredential(key, input, codec) ==
    \E r \in {UpdateCredentialRet(store, credentialers, key, input, codec, fails) :
                fails \in BOOLEAN} :
        /\ store' = r.store
        /\ last' = [NoCall EXCEPT !.op = "UpdateCredential", !.key = key, !.err = r.err,
                                  !.was = IF r.err = NilError THEN store[key].schema ELSE ""]
        /\ UNCHANGED <<credentialers, cvars>>

Next ==
    \/ \E n \in Names : \E f \in {FactoryOf(n)} : RegisterCredentialer(n, f)
    \/ \E n \in Names : DoNewCredential(n)
    \/ \E fails \in BOOLEAN : DoListIds(fails)
    \/ \E k \in Keys, c \in ConcreteCreds, fails \in BOOLEAN : DoSave(k, c, fails)
    \/ \E k \in Keys : DoGet(k)
    \/ \E k \in Keys, complains \in BOOLEAN : DoDelete(k, complains)
    \/ \E k \in Keys : DoExists(k)
    \/ \E p \in Names, k \in Keys, i \in Inputs, c \in Selectors : CreateCredential(p, k, i, c)
    \/ \E k \in Keys, i \in Inputs, c \in Selectors : UpdateCredential(k, i, c)

Spec == Init /\ [][Next]_vars

\* The registry alone, with every factory a provisioner may register for its
\* name, so that a name is registered more than once with different factories.
NextRegistry ==
    \/ \E n \in Names : \E f \in Factories(n) : RegisterCredentialer(n, f)
    \/ \E n \in Names : DoNewCredential(n)

SpecRegistry == Init /\ [][NextRegistry]_vars

\* A single caller that uses the calls that hand one request to the store
\* (Save, Get, Delete, Exists, ListIds) and registers provisioners; the store
\* comes to hold every kind of record without CreateCredential and
\* UpdateCredential.
NextStore ==
    \/ \E n \in Names : \E f \in {FactoryOf(n)} : RegisterCredentialer(n, f)
    \/ \E fails \in BOOLEAN : DoListIds(fails)
    \/ \E k \in Keys, c \in ConcreteCreds, fails \in BOOLEAN : DoSave(k, c, fails)
    \/ \E k \in Keys : DoGet(k)
    \/ \E k \in Keys, complains \in BOOLEAN : DoDelete(k, complains)
    \/ \E k \in Keys : DoExists(k)

SpecStore == Init /\ [][NextStore]_vars

\* A single caller over a registry that is set up once and a store that
\* starts empty and changes through CreateCredential, UpdateCredential and
\* Delete only.
InitManaged ==
    /\ credentialers \in {reg \in [Names -> {NoFactory} \cup {FactoryOf(n) : n \in Names}] :
                             \A n \in Names : reg[n] \in {NoFactory, FactoryOf(n)}}
    /\ store = [k \in Keys |-> AbsentCell]
    /\ last = NoCall
    /\ InitConc

NextManaged ==
    \/ \E p \in Names, k \in Keys, i \in Inputs, c \in Selectors : CreateCredential(p, k, i, c)
    \/ \E k \in Keys, i \in Inputs, c \in Selectors : UpdateCredential(k, i, c)
    \/ \E k \in Keys, complains \in BOOLEAN : DoDelete(k, complains)

SpecManaged == InitManaged /\ [][NextManaged]_vars

\* Marshal and Unmarshal as callers use them.  Marshal records the credential
\* it was given and the bytes it returned; Unmarshal is given bytes and either
\* the base shape (target NoDisc) or the empty credential NewCredential makes
\* for a registered provisioner, and records what the target holds afterwards.
DoMarshal(contentType, cred) ==
    /\ last' = [NoCall EXCEPT !.op = "Marshal", !.codec = contentType, !.out = cred,
                              !.data = Marshal(contentType, cred).data,
                              !.gerr = Marshal(contentType, cred).err]
    /\ UNCHANGED <<credentialers, store, cvars>>

DoUnmarshal(contentType, data, target) ==
    /\ target # NoDisc => NewCredential(credentialers, target).err = ""
    /\ LET cred == IF target = NoDisc THEN CredentialBase
                   ELSE NewCredential(credentialers, target).cred
       IN  last' = [NoCall EXCEPT !.op = "Unmarshal", !.codec = contentType, !.prov = target,
                                 !.data = data,
                                 !.out = Unmarshal(contentType, data, cred).cred,
                                 !.gerr = Unmarshal(contentType, data, cred).err]
    /\ UNCHANGED <<credentialers, store, cvars>>

\* The bytes a caller may hold: what some Marshal returns, or garbage.
Wire == {GarbageDoc} \cup {Marshal(c, v).data : c \in Selectors, v \in ConcreteCreds}

NextCodec ==
    \/ \E n \in Names : \E f \in Factories(n) : RegisterCredentialer(n, f)
    \/ \E c \in Selectors, v \in ConcreteCreds : DoMarshal(c, v)
    \/ \E c \in Selectors, d \in Wire, t \in Discs : DoUnmarshal(c, d, t)

SpecCodec == InitStoreEmpty /\ [][NextCodec]_vars

\* ---------------------------------------------------------------- concurrent callers

\* RegisterCredentialer and NewCredential step by step, for callers that run
\* at the same time.  A read or a write of the map takes time: it begins and
\* it ends, and a read that overlaps a write of another caller is a data race.

CallRegisterCredentialer(p, provisionerName, f) ==
    /\ ~crashed /\ pc[p] = "idle"
    /\ pc' = [pc EXCEPT ![p] = "reg_lock"]
    /\ call' = [call EXCEPT ![p] = [name |-> provisionerName, f |-> f]]
    /\ UNCHANGED <<credentialers, store, last, lock, raced, res, crashed>>

\* lock.Lock()
RegLock(p) ==
    /\ ~crashed /\ pc[p] = "reg_lock" /\ lock = NoLock
    /\ lock' = p
    /\ pc' = [pc EXCEPT ![p] = "reg_write"]
    /\ UNCHANGED <<credentialers, store, last, call, raced, res, crashed>>

\* credentialers[provisionerName] = f, begun
RegWriteBegin(p) ==
    /\ ~crashed /\ pc[p] = "reg_write"
    /\ pc' = [pc EXCEPT ![p] = "reg_writing"]
    /\ raced' = [q \in Procs |-> raced[q] \/ (q # p /\ pc[q] = "nc_reading")]
    /\ UNCHANGED <<credentialers, store, last, lock, call, res, crashed>>

\* credentialers[provisionerName] = f, done
RegWriteEnd(p) ==
    /\ ~crashed /\ pc[p] = "reg_writing"
    /\ credentialers' = [credentialers EXCEPT ![call[p].name] = call[p].f]
    /\ pc' = [pc EXCEPT ![p] = "reg_unlock"]
    /\ UNCHANGED <<store, last, lock, call, raced, res, crashed>>

\* the deferred lock.Unlock(), and the return
RegUnlock(p) ==
    /\ ~crashed /\ pc[p] = "reg_unlock"
    /\ lock' = NoLock
    /\ pc' = [pc EXCEPT ![p] = "idle"]
    /\ call' = [call EXCEPT ![p] = NoArgs]
    /\ UNCHANGED <<credentialers, store, last, raced, res, crashed>>

CallNewCredential(p, provisionerName) ==
    /\ ~crashed /\ pc[p] = "idle"
    /\ pc' = [pc EXCEPT ![p] = "nc_read"]
    /\ call' = [call EXCEPT ![p] = [name |-> provisionerName, f |-> NoFactory]]
    /\ UNCHANGED <<credentialers, store, last, lock, raced, res, crashed>>

\* c, has := credentialers[provisionerName], begun; no lock is taken
NcReadBegin(p) ==
    /\ ~crashed /\ pc[p] = "nc_read"
    /\ pc' = [pc EXCEPT ![p] = "nc_reading"]
    /\ raced' = [raced EXCEPT ![p] = \E q \in Procs \ {p} : pc[q] = "reg_writing"]
    /\ UNCHANGED <<credentialers, store, last, lock, call, res, crashed>>

\* c, has := credentialers[provisionerName], done: the entry of the map, or,
\* after a data race, anything the map may have held
NcReadEnd(p) ==
    /\ ~crashed /\ pc[p] = "nc_reading"
    /\ \E f \in IF raced[p]
                THEN {NoFactory} \cup Factories(call[p].name)
                ELSE {Lookup(credentialers, call[p].name)} :
          res' = [res EXCEPT ![p] = f]
    /\ pc' = [pc EXCEPT ![p] = "nc_ret"]
    /\ UNCHANGED <<credentialers, store, last, lock, call, raced, crashed>>

\* the runtime detects the concurrent map read and map write and stops the
\* process
NcReadCrash(p) ==
    /\ ~crashed /\ pc[p] = "nc_reading" /\ raced[p]
    /\ crashed' = TRUE
    /\ UNCHANGED <<credentialers, store, last, pc, lock, call, raced, res>>

\* return c(), nil or return nil, an error
NcReturn(p) ==
    /\ ~crashed /\ pc[p] = "nc_ret"
    /\ pc' = [pc EXCEPT ![p] = "idle"]
    /\ call' = [call EXCEPT ![p] = NoArgs]
    /\ raced' = [raced EXCEPT ![p] = FALSE]
    /\ res' = [res EXCEPT ![p] = NoFactory]
    /\ UNCHANGED <<credentialers, store, last, lock, crashed>>

NextConc ==
    \/ \E p \in Procs, n \in Names : \E f \in Factories(n) : CallRegisterCredentialer(p, n, f)
    \/ \E p \in Procs : RegLock(p)
    \/ \E p \in Procs : RegWriteBegin(p)
    \/ \E p \in Procs : RegWriteEnd(p)
    \/ \E p \in Procs : RegUnlock(p)
    \/ \E p \in Procs, n \in Names : CallNewCredential(p, n)
    \/ \E p \in Procs : NcReadBegin(p)
    \/ \E p \in Procs : NcReadEnd(p)
    \/ \E p \in Procs : NcReadCrash(p)
    \/ \E p \in Procs : NcReturn(p)

SpecConc == InitStoreEmpty /\ [][NextConc]_vars

\* ---------------------------------------------------------------- concurrent manager calls

\* Two callers, each making one call of the manager while the other makes
\* its own.  The registry is the one the provisioner packages set up at
\* start-up and the store holds what earlier runs left in it.  Every call of
\* the store is atomic; the manager holds nothing between two of them, so a
\* step of one caller may fall between two store calls of the other.
\* call[p] is the call p makes and the credential it holds for its second
\* store call; res[p] is what the call returned, whether a write of the other
\* caller to its key landed between its two reads (hit), and whether the
\* other caller's Delete of its key had returned when it saved (late).
NoneCalled == [op |-> "none", key |-> "k1", cred |-> NilCred]
NoRes == [err |-> NilError, gerr |-> "", out |-> NilCred, hit |-> FALSE, late |-> FALSE]

Stored == {Encode([shape |-> n, disc |-> n, v |-> MaxVal]) : n \in Names}
OwnDocs ==
    {[wf |-> TRUE, enc |-> "json", disc |-> n, schema |-> n, v |-> x, bad |-> FALSE] :
        n \in Names, x \in 1 .. MaxVal}
CallerInputs == [readErr : {FALSE}, data : OwnDocs \cup {GarbageDoc}]
CallerCreds == {[shape |-> n, disc |-> n, v |-> x] : n \in Names, x \in 1 .. MaxVal}

InitCallers ==
    /\ credentialers = [n \in Names |-> FactoryOf(n)]
    /\ store \in [Keys -> {AbsentCell} \cup Stored]
    /\ last = NoCall
    /\ pc = [p \in Procs |-> "idle"]
    /\ lock = NoLock
    /\ call = [p \in Procs |-> NoneCalled]
    /\ raced = [p \in Procs |-> FALSE]
    /\ res = [p \in Procs |-> NoRes]
    /\ crashed = FALSE

\* p returns: its result is res[p].
Return(p, op, key, r) ==
    /\ pc' = [pc EXCEPT ![p] = "done"]
    /\ call' = [call EXCEPT ![p] = [op |-> op, key |-> key, cred |-> call[p].cred]]
    /\ res' = [res EXCEPT ![p] = r]

\* A write to key by p that took effect is seen by a Get of the other caller
\* that stands between its two reads of key.
Landed(p, key, r) ==
    [q \in Procs |->
        IF q = p THEN r
        ELSE IF pc[q] = "get_read2" /\ call[q].key = key
        THEN [res[q] EXCEPT !.hit = TRUE]
        ELSE res[q]]

\* Get, lines 115-126: the read into the base shape, and the allocation of
\* the concrete shape from the discriminator read.
GetBaseRead(p, key) ==
    /\ pc[p] = "idle"
    /\ LET base == store_GetCredentials(store, key, CredentialBase)
           detail == NewCredential(credentialers, base.cred.disc)
       IN  IF base.err # ""
           THEN Return(p, "Get", key, [NoRes EXCEPT !.gerr = base.err])
           ELSE IF detail.err # ""
           THEN Return(p, "Get", key, [NoRes EXCEPT !.gerr = detail.err])
           ELSE /\ pc' = [pc EXCEPT ![p] = "get_read2"]
                /\ call' = [call EXCEPT ![p] = [op |-> "Get", key |-> key, cred |-> detail.cred]]
                /\ res' = res
    /\ UNCHANGED <<credentialers, store, last, lock, raced, crashed>>

\* A second phase that looks the discriminator up again and reads the record
\* into the shape it has now.
GetDetailRead_Fresh(p) ==
    /\ pc[p] = "get_read2"
    /\ LET g == Get(store, credentialers, call[p].key)
       IN  Return(p, "Get", call[p].key,
                  IF g.err # ""
                  THEN [res[p] EXCEPT !.gerr = g.err]
                  ELSE [res[p] EXCEPT !.out = g.cred])
    /\ UNCHANGED <<credentialers, store, last, lock, raced, crashed>>

\* Get, lines 127-131: the read of the same key into the concrete shape.
GetDetailRead(p) ==
    /\ pc[p] = "get_read2"
    /\ LET read == store_GetCredentials(store, call[p].key, call[p].cred)
       IN  Return(p, "Get", call[p].key,
                  IF read.err # ""
                  THEN [res[p] EXCEPT !.gerr = read.err]
                  ELSE [res[p] EXCEPT !.out = read.cred])
    /\ UNCHANGED <<credentialers, store, last, lock, raced, crashed>>

\* CreateCredential, lines 159-175: the existence check and the decoding.
CreateCheck(p, provisioner, key, input, codec) ==
    /\ pc[p] = "idle"
    /\ LET pre == CreateDecoded(credentialers, provisioner, input, codec)
       IN  IF Exists(store, key)
           THEN Return(p, "CreateCredential", key,
                       [NoRes EXCEPT !.err = CredentialError(ErrCredentialDuplicate, "Key exists")])
           ELSE IF pre.err # NilError
           THEN Return(p, "CreateCredential", key, [NoRes EXCEPT !.err = pre.err])
           ELSE /\ pc' = [pc EXCEPT ![p] = "create_save"]
                /\ call' = [call EXCEPT ![p] =
                               [op |-> "CreateCredential", key |-> key, cred |-> pre.cred]]
                /\ res' = res
    /\ UNCHANGED <<credentialers, store, last, lock, raced, crashed>>

\* CreateCredential, lines 176-179: the Save and the return.
CreateSave(p, fails) ==
    /\ pc[p] = "create_save"
    /\ LET sav == Save(store, call[p].key, call[p].cred, fails)
       IN  /\ store' = sav.store
           /\ pc' = [pc EXCEPT ![p] = "done"]
           /\ call' = call
           /\ res' = IF sav.err # ""
                     THEN [res EXCEPT ![p] = [NoRes EXCEPT !.err = CredentialErrorMsg(sav.err)]]
                     ELSE Landed(p, call[p].key, NoRes)
    /\ UNCHANGED <<credentialers, last, lock, raced, crashed>>

\* UpdateCredential, lines 183-205: the existence check and the decoding.
UpdateCheck(p, key, input, codec) ==
    /\ pc[p] = "idle"
    /\ LET pre == UpdateDecoded(credentialers, input, codec)
       IN  IF ~Exists(store, key)
           THEN Return(p, "UpdateCredential", key,
                       [NoRes EXCEPT !.err =
                           CredentialError(ErrCredentialNotFound, "Credential not found")])
           ELSE IF pre.err # NilError
           THEN Return(p, "UpdateCredential", key, [NoRes EXCEPT !.err = pre.err])
           ELSE /\ pc' = [pc EXCEPT ![p] = "update_save"]
                /\ call' = [call EXCEPT ![p] =
                               [op |-> "UpdateCredential", key |-> key, cred |-> pre.cred]]
                /\ res' = res
    /\ UNCHANGED <<credentialers, store, last, lock, raced, crashed>>

\* UpdateCredential, lines 207-210: the Save and the return.
UpdateSave(p, fails) ==
    /\ pc[p] = "update_save"
    /\ LET sav == Save(store, call[p].key, call[p].cred, fails)
           late == \E q \in Procs \ {p} :
                       pc[q] = "done" /\ call[q].op = "Delete" /\ call[q].key = call[p].key
       IN  /\ store' = sav.store
           /\ pc' = [pc EXCEPT ![p] = "done"]
           /\ call' = call
           /\ res' = IF sav.err # ""
                     THEN [res EXCEPT ![p] = [NoRes EXCEPT !.err = CredentialErrorMsg(sav.err),
                                                           !.late = late]]
                     ELSE Landed(p, call[p].key, [NoRes EXCEPT !.late = late])
    /\ UNCHANGED <<credentialers, last, lock, raced, crashed>>

\* Delete, lines 133-135: one call of the store.
CallDelete(p, key, complains) ==
    /\ pc[p] = "idle"
    /\ store' = Delete(store, key, complains).store
    /\ pc' = [pc EXCEPT ![p] = "done"]
    /\ call' = [call EXCEPT ![p] = [op |-> "Delete", key |-> key, cred |-> NilCred]]
    /\ res' = Landed(p, key, [NoRes EXCEPT !.gerr = Delete(store, key, complains).err])
    /\ UNCHANGED <<credentialers, last, lock, raced, crashed>>

\* Save, lines 108-110: one call of the store.
CallSave(p, key, cred, fails) ==
    /\ pc[p] = "idle"
    /\ store' = Save(store, key, cred, fails).store
    /\ pc' = [pc EXCEPT ![p] = "done"]
    /\ call' = [call EXCEPT ![p] = [op |-> "Save", key |-> key, cred |-> cred]]
    /\ res' = IF fails
              THEN [res EXCEPT ![p] = [NoRes EXCEPT !.gerr = Save(store, key, cred, fails).err]]
              ELSE Landed(p, key, NoRes)
    /\ UNCHANGED <<credentialers, last, lock, raced, crashed>>

NextCallers ==
    \/ \E p \in Procs, k \in Keys : GetBaseRead(p, k)
    \/ \E p \in Procs : GetDetailRead(p)
    \/ \E p \in Procs, n \in Names, k \in Keys, i \in CallerInputs :
          CreateCheck(p, n, k, i, NilCodec)
    \/ \E p \in Procs, fails \in BOOLEAN : CreateSave(p, fails)
    \/ \E p \in Procs, k \in Keys, i \in CallerInputs : UpdateCheck(p, k, i, NilCodec)
    \/ \E p \in Procs, fails \in BOOLEAN : UpdateSave(p, fails)
    \/ \E p \in Procs, k \in Keys, complains \in BOOLEAN : CallDelete(p, k, complains)
    \/ \E p \in Procs, k \in Keys, c \in CallerCreds, fails \in BOOLEAN : CallSave(p, k, c, fails)

SpecCallers == InitCallers /\ [][NextCallers]_vars

\* ---------------------------------------------------------------- properties

\* C1: whenever key k is present, CreateCredential on k returns an error with
\* code Duplicate and leaves every record as it was, whatever the provisioner,
\* payload and codec; so right after a successful CreateCredential on k a
\* second one on k is a Duplicate and the value of the first call stays.
C1_CreateOnPresentIsDuplicate ==
    /\ \A k \in Keys : Exists(store, k) =>
          \A p \in Names, i \in Inputs, c \in Selectors, f \in BOOLEAN :
              LET r == CreateCredentialRet(store, credentialers, p, k, i, c, f)
              IN  ~r.err.nil /\ r.err.Code = ErrCredentialDuplicate /\ r.store = store
    /\ (last.op = "CreateCredential" /\ last.err = NilError) => Exists(store, last.key)

\* A CreateCredential was refused as a duplicate of a stored credential.
C1_Witness ==
    /\ last.op = "CreateCredential"
    /\ ~last.err.nil /\ last.err.Message = "Key exists"
    /\ store[last.key].st = "ok"

\* C2: whenever key k is absent, UpdateCredential on k fails with code
\* NotFound and the whole store, key set and records, is as it was, whatever
\* the payload.
C2_UpdateOnAbsentIsNotFound ==
    \A k \in Keys : ~Exists(store, k) =>
        \A i \in Inputs, c \in Selectors, f \in BOOLEAN :
            LET r == UpdateCredentialRet(store, credentialers, k, i, c, f)
            IN  /\ ~r.err.nil /\ r.err.Code = ErrCredentialNotFound
                /\ r.err.Message = "Credential not found"
                /\ r.store = store

\* An UpdateCredential was refused on a key that is absent.
C2_Witness ==
    /\ last.op = "UpdateCredential"
    /\ ~last.err.nil /\ last.err.Message = "Credential not found"
    /\ store[last.key].st = "absent"

\* C3: after a successful CreateCredential(p, k, bytes, codec), Get(k)
\* succeeds and returns a credential of provisioner p carrying the fields
\* decoded from bytes, for every payload CreateCredential accepts.
C3_CreateThenGet ==
    (last.op = "CreateCredential" /\ last.err = NilError) =>
        LET g == Get(store, credentialers, last.key)
        IN  /\ g.err = ""
            /\ g.cred.disc = last.prov /\ g.cred.shape = last.prov
            /\ g.cred.v = last.out.v

\* C4: a successful UpdateCredential(k, bytes, codec) stores at k, and at k
\* only, the credential decoded from bytes into the shape the registry gives
\* for the discriminator in bytes, and Get(k) then returns exactly it.
C4_UpdateStoresDecoded ==
    \A k \in Keys, i \in Inputs, c \in Selectors :
        LET r == UpdateCredentialRet(store, credentialers, k, i, c, FALSE)
            d == i.data.disc
            want == Unmarshal(c, i.data, NewCredential(credentialers, d).cred).cred
        IN  r.err = NilError =>
              /\ NewCredential(credentialers, d).err = ""
              /\ want.shape = d /\ want.disc = d
              /\ r.store = [store EXCEPT ![k] = Encode(want)]
              /\ Get(r.store, credentialers, k) = [cred |-> want, err |-> ""]

\* An UpdateCredential replaced a record by one of another provisioner, and
\* Get reads the new one.
C4_Witness ==
    /\ last.op = "UpdateCredential" /\ last.err = NilError
    /\ last.was \in Names /\ last.was # store[last.key].schema
    /\ Get(store, credentialers, last.key).err = ""
    /\ Get(store, credentialers, last.key).cred.shape = store[last.key].schema

\* C5: whenever CreateCredential or UpdateCredential returns an error, of
\* any kind, the store is what it was before the call.
C5_ErrorLeavesStore ==
    \A k \in Keys, i \in Inputs, c \in Selectors, f \in BOOLEAN :
        /\ \A p \in Names :
              LET r == CreateCredentialRet(store, credentialers, p, k, i, c, f)
              IN  r.err # NilError => r.store = store
        /\ LET r == UpdateCredentialRet(store, credentialers, k, i, c, f)
           IN  r.err # NilError => r.store = store

\* An UpdateCredential with a malformed payload failed on a stored credential.
C5_Witness ==
    /\ last.op = "UpdateCredential"
    /\ ~last.err.nil /\ last.err.Message = "codec error"
    /\ store[last.key].st = "ok"

\* C6: Exists(k) is false right after Delete(k), and true right after a
\* successful CreateCredential or UpdateCredential on k.
C6_ExistsAfter ==
    /\ last.op = "Delete" => ~Exists(store, last.key)
    /\ (last.op \in {"CreateCredential", "UpdateCredential"} /\ last.err = NilError) =>
          Exists(store, last.key)

\* A Delete removed a stored credential.
C6_Witness ==
    last.op = "Delete" /\ last.was = "ok" /\ last.gerr = "" /\ ~Exists(store, last.key)

\* C7: a CreateCredential on an absent key, or an UpdateCredential on a
\* present one, that fails because the provisioner has no registered factory
\* reports a code that is neither Duplicate nor NotFound, and leaves the
\* store as it was.
C7_UnknownProvisionerKind ==
    /\ (/\ last.op \in {"CreateCredential", "UpdateCredential"}
        /\ ~last.err.nil
        /\ last.err.Message \in {"Unknown provisioner", "Unknow provisioner"}) =>
          /\ last.err.Code # ErrCredentialDuplicate
          /\ last.err.Code # ErrCredentialNotFound
    /\ \A k \in Keys, i \in Inputs, c \in Selectors, f \in BOOLEAN :
          /\ \A p \in Names :
                (~Exists(store, k) /\ NewCredential(credentialers, p).err # "") =>
                    LET r == CreateCredentialRet(store, credentialers, p, k, i, c, f)
                    IN  ~r.err.nil /\ r.store = store
          /\ (/\ Exists(store, k) /\ ~i.readErr
              /\ Unmarshal(c, i.data, CredentialBase).err = ""
              /\ NewCredential(credentialers,
                               Unmarshal(c, i.data, CredentialBase).cred.disc).err # "") =>
                LET r == UpdateCredentialRet(store, credentialers, k, i, c, f)
                IN  ~r.err.nil /\ r.store = store

\* C8: an error of CreateCredential or UpdateCredential that wraps an
\* input-read, codec or store failure never carries the code of Duplicate or
\* of NotFound.
C8_GenericKind ==
    (/\ last.op \in {"CreateCredential", "UpdateCredential"}
     /\ ~last.err.nil
     /\ last.err.Message \in {"read error", "codec error", "store: save failed"}) =>
        /\ last.err.Code # ErrCredentialDuplicate
        /\ last.err.Code # ErrCredentialNotFound

\* C10: Get fails with the store's error when the base-shape read fails, with
\* the unknown-provisioner error when the discriminator read has no factory,
\* and with the store's error when the concrete-shape read fails; a failing
\* Get returns no credential; Get changes neither the store nor the registry.
C10_GetFailures ==
    [][last'.op = "Get" =>
        LET k == last'.key
            base == store_GetCredentials(store, k, CredentialBase)
            fac == Lookup(credentialers, base.cred.disc)
            read == store_GetCredentials(store, k, Call(fac))
        IN  /\ store' = store /\ credentialers' = credentialers
            /\ base.err # "" => (last'.gerr = base.err /\ last'.out = NilCred)
            /\ (base.err = "" /\ fac = NoFactory) =>
                  (last'.gerr = "Unknown provisioner" /\ last'.out = NilCred)
            /\ (base.err = "" /\ fac # NoFactory /\ read.err # "") =>
                  (last'.gerr = read.err /\ last'.out = NilCred)
            /\ last'.gerr # "" => last'.out = NilCred
            /\ last'.gerr = "" => (base.err = "" /\ fac # NoFactory /\ read.err = "")]_vars

\* A Get failed on its second read: the record's discriminator resolved, its
\* fields did not decode.
C10_Witness ==
    /\ last.op = "Get" /\ last.gerr = "codec error" /\ last.out = NilCred
    /\ store[last.key].st = "badfield"
    /\ Lookup(credentialers, store[last.key].disc) # NoFactory

\* C11: for each key, over any sequence of CreateCredential, UpdateCredential
\* and Delete calls of a single caller, the key follows Absent -> (Create) ->
\* Present -> (Update)* -> Present -> (Delete) -> Absent: a successful Create
\* happens only from Absent and leads to Present, a successful Update happens
\* only from Present and stays Present, a Delete leads to Absent and a Create
\* of a registered provisioner with a payload of its own then succeeds again
\* (a Create on an absent key is never refused as a duplicate), a Create on
\* Present and an Update on Absent fail, and no call moves another key.
C11_KeyStateMachine ==
    [][CASE last'.op = "CreateCredential" ->
              /\ IF last'.err = NilError
                 THEN ~Exists(store, last'.key) /\ Exists(store', last'.key)
                 ELSE /\ \/ store' = store
                         \/ Exists(store', last'.key) = Exists(store, last'.key)
                      /\ last'.err.Message = "Key exists" => Exists(store, last'.key)
              /\ \A j \in Keys \ {last'.key} :
                    store'[j] = store[j] \/ Exists(store', j) = Exists(store, j)
         [] last'.op = "UpdateCredential" ->
              /\ IF last'.err = NilError
                 THEN Exists(store, last'.key) /\ Exists(store', last'.key)
                 ELSE \/ store' = store
                      \/ Exists(store', last'.key) = Exists(store, last'.key)
              /\ \A j \in Keys \ {last'.key} :
                    store'[j] = store[j] \/ Exists(store', j) = Exists(store, j)
         [] last'.op = "Delete" ->
              /\ ~Exists(store', last'.key)
              /\ \A j \in Keys \ {last'.key} :
                    store'[j] = store[j] \/ Exists(store', j) = Exists(store, j)
              /\ \A p \in Names :
                    NewCredential(credentialers', p).err = "" =>
                        LET i == [readErr |-> FALSE,
                                  data |-> Marshal(NilCodec, [shape |-> p, disc |-> p, v |-> 1])
                                             .data]
                            r == CreateCredentialRet(store', credentialers', p, last'.key, i,
                                                     NilCodec, FALSE)
                        IN  r.err = NilError /\ Exists(r.store, last'.key)
         [] OTHER -> TRUE]_vars

\* A record the manager had written was deleted: its key is absent again and
\* a provisioner is registered that it can be created for anew.
C11_Witness ==
    /\ last.op = "Delete" /\ last.was = "ok"
    /\ store[last.key] = AbsentCell
    /\ \E p \in Names : NewCredential(credentialers, p).err = ""

\* C12: the registry starts empty; NewCredential of a name with no
\* registration so far fails with the unknown-provisioner error and returns no
\* credential; NewCredential of a registered name returns what the factory of
\* the most recent RegisterCredentialer of that name produces, computed anew
\* at every call: a registration replaces the entry of its name and of no
\* other name, and nothing else changes the registry.
C12_LastRegistrationWins ==
    /\ \A n \in Names : Lookup(credentialers, n) = NoFactory
    /\ [][/\ IF last'.op = "RegisterCredentialer"
              THEN /\ credentialers'[last'.prov] = last'.f
                   /\ \A n \in Names \ {last'.prov} : credentialers'[n] = credentialers[n]
                   /\ NewCredential(credentialers', last'.prov) =
                         [cred |-> Call(last'.f), err |-> ""]
              ELSE credentialers' = credentialers
          /\ last'.op = "NewCredential" =>
                IF credentialers[last'.prov] = NoFactory
                THEN last'.gerr = "Unknown provisioner" /\ last'.out = NilCred
                ELSE last'.gerr = "" /\ last'.out = Call(credentialers[last'.prov])]_vars

\* A name was registered again, with another factory than it had, and
\* NewCredential of the name now gives the product of the new one.
C12_Witness ==
    /\ last.op = "RegisterCredentialer" /\ last.was = "other"
    /\ credentialers[last.prov] = last.f
    /\ NewCredential(credentialers, last.prov) = [cred |-> Call(last.f), err |-> ""]

\* C13: ListIds returns exactly the keys that have a record in the store,
\* among them every key a successful CreateCredential, UpdateCredential or
\* Save wrote and not the key a Delete removed; on an empty store it returns
\* an empty sequence that is not nil, and no error; it returns an error, and
\* then a nil list, exactly when the store's List fails.
C13_ListIdsExact ==
    /\ last.op = "ListIds" =>
          IF last.gerr = ""
          THEN last.ok /\ last.ids = {k \in Keys : store[k] # AbsentCell}
          ELSE ~last.ok /\ last.ids = {} /\ last.gerr = store_List(store, TRUE).err
    /\ \A fails \in BOOLEAN :
          /\ (ListIds(store, fails).err # "") = (store_List(store, fails).err # "")
          /\ ListIds(store, fails).err = store_List(store, fails).err
          /\ ListIds(store, fails).nil = (ListIds(store, fails).err # "")
    /\ (\A k \in Keys : store[k] = AbsentCell) =>
          ListIds(store, FALSE) = [out |-> {}, nil |-> FALSE, err |-> ""]
    /\ (/\ last.op \in {"CreateCredential", "UpdateCredential"}
        /\ last.err = NilError) => last.key \in ListIds(store, FALSE).out
    /\ (last.op = "Save" /\ last.gerr = "") => last.key \in ListIds(store, FALSE).out
    /\ last.op = "Delete" => last.key \notin ListIds(store, FALSE).out

\* ListIds returned the one key the manager had written a record for, the
\* other key being absent.
C13_Witness ==
    /\ last.op = "ListIds" /\ last.gerr = "" /\ last.ok
    /\ \E k \in Keys : /\ last.ids = {k}
                       /\ store[k].st = "ok"
                       /\ \A j \in Keys \ {k} : store[j] = AbsentCell

\* C14: Exists(k) returns true exactly when a read of the record at k into
\* the base shape succeeds in the current store; it reports no error and
\* changes neither the store nor the registry; an absent key and a record the
\* base shape cannot be decoded from both give false.
C14_ExistsIsBaseRead ==
    [][last'.op = "Exists" =>
          /\ last'.ok = (store_GetCredentials(store, last'.key, CredentialBase).err = "")
          /\ store[last'.key].st \in {"absent", "garbage"} => ~last'.ok
          /\ store[last'.key].st \in {"ok", "badfield"} => last'.ok
          /\ last'.gerr = "" /\ last'.err = NilError
          /\ store' = store /\ credentialers' = credentialers]_vars

\* Exists answered false for a key whose record nothing decodes.
C14_Witness ==
    last.op = "Exists" /\ ~last.ok /\ store[last.key] = GarbageCell

\* C15: Save(k, cred) is an unconditional upsert: whatever the store holds at
\* k and whatever the registry holds, it returns exactly what the store's Save
\* returns; when the store's write succeeds the record at k is cred's, created
\* or replaced, and no other key changes; when it fails nothing changes.
C15_SaveIsUpsert ==
    /\ \A k \in Keys, c \in ConcreteCreds, fails \in BOOLEAN :
          LET r == Save(store, k, c, fails)
          IN  /\ r = store_Save(store, k, c, fails)
              /\ ~fails => (r.err = "" /\ r.store = [store EXCEPT ![k] = Encode(c)])
              /\ fails => (r.err # "" /\ r.store = store)
    /\ (last.op = "Save" /\ last.gerr = "") => store[last.key].st = "ok"

\* A Save wrote a credential of a provisioner that has no registered factory.
C15_Witness ==
    /\ last.op = "Save" /\ last.gerr = ""
    /\ store[last.key].st = "ok"
    /\ NewCredential(credentialers, store[last.key].schema).err # ""

C17_GetNotTransactional ==
    [][\A p \in Procs :
          (pc[p] = "get_read2" /\ pc'[p] = "done") =>
              LET k == call[p].key
                  read == store_GetCredentials(store, k, call[p].cred)
                  whole == Get(store, credentialers, k)
              IN  /\ res'[p].gerr = read.err
                  /\ res'[p].out = IF read.err = "" THEN read.cred ELSE NilCred
                  /\ ~res[p].hit => (res'[p].gerr = whole.err /\ res'[p].out = whole.cred)]_vars

\* A Get returned a stale-typed credential: the record was replaced between
\* its reads by one of another provisioner, and the result has the shape of
\* the old provisioner, the discriminator of the new one and none of its
\* fields.
C17_Witness ==
    \E p \in Procs :
        /\ pc[p] = "done" /\ call[p].op = "Get"
        /\ res[p].hit /\ res[p].gerr = ""
        /\ res[p].out.shape # res[p].out.disc
        /\ res[p].out.disc = store[call[p].key].schema
        /\ res[p].out.v = 0 /\ store[call[p].key].v # 0

\* C18: when two callers make their CreateCredential calls on the same key
\* at the same time, at most one of the calls returns success, and the
\* record of the successful call is the one the key holds afterwards.
C18_AtMostOneCreate ==
    \A p \in Procs, q \in Procs :
        (/\ p # q /\ pc[p] = "done" /\ pc[q] = "done"
         /\ call[p].op = "CreateCredential" /\ call[q].op = "CreateCredential"
         /\ call[p].key = call[q].key) =>
            /\ ~(res[p].err = NilError /\ res[q].err = NilError)
            /\ res[p].err = NilError => store[call[p].key] = Encode(call[p].cred)

\* C19: an UpdateCredential on a key that a Delete of another caller has
\* removed before the update saves creates no record: once both calls have
\* returned the key is absent.
C19_UpdateNeverCreates ==
    \A p \in Procs, q \in Procs :
        (/\ p # q /\ pc[p] = "done" /\ pc[q] = "done"
         /\ call[p].op = "UpdateCredential" /\ call[q].op = "Delete"
         /\ call[p].key = call[q].key
         /\ res[p].late) => store[call[p].key] = AbsentCell

\* C20: with a registry that does not change and a store that changes
\* through successful CreateCredential, UpdateCredential and Delete calls of
\* one caller only, Get succeeds on every key Exists is true of.
C20_ExistsImpliesGet ==
    \A k \in Keys : Exists(store, k) => Get(store, credentialers, k).err = ""

\* C9: the mutex keeps every lookup's read of the registry map apart from
\* every registration's write of it (both accesses being made under the one
\* mutex), and the mutex is held for the map access only.
C9_RegistryAccessUnderLock ==
    /\ \A p \in Procs, q \in Procs : ~(pc[p] = "nc_reading" /\ pc[q] = "reg_writing")
    /\ \A p \in Procs : lock = p => pc[p] \in {"reg_write", "reg_writing", "reg_unlock"}

====
